---- MODULE Spec2Model ----
(***************************************************************************)
(* A model of SimpleFpCalc: the calculation engine of fpcalc.py, the       *)
(* results section of app.py that chains it, and the authentication gate   *)
(* of auth.py that guards the page.                                        *)
(*                                                                         *)
(* Python values are records tagged by "t": None, numbers, strings,        *)
(* tuples and raised exceptions.  A number is an exact real of the form    *)
(* (n/d)*sqrt(r), d > 0, gcd(n,d) = 1, r a square-free positive integer    *)
(* (r = 1 for a rational), so that math.sqrt of a rational is exact and    *)
(* structural equality is numeric equality.  Floating-point rounding is    *)
(* not modelled.                                                           *)
(***************************************************************************)
EXTENDS Integers, Sequences, FiniteSets, TLC

VARIABLES
    call,           \* the engine call last made: its function and arguments
    ret,            \* what that call returned, or the exception it raised
    session_state,  \* st.session_state: key -> value, keys may be missing
    query_params,   \* st.query_params: the "code" parameter, or NoCode
    page,           \* what the last script run rendered
    rerun,          \* st.rerun() was called: the script runs again at once
    exchange,       \* what the session's last OAuth exchange returned
    secrets         \* st.secrets["microsoft"], fixed for the deployment

vars ==
    <<call, ret, session_state, query_params, page, rerun, exchange, secrets>>
authVars == <<session_state, query_params, page, rerun, exchange, secrets>>

-----------------------------------------------------------------------------
(* Python values *)

None == [t |-> "None"]
Exc(e) == [t |-> "exc", e |-> e]
Tuple(s) == [t |-> "tuple", v |-> s]
Str(s) == [t |-> "str", s |-> s]

IsExc(v) == v.t = "exc"
IsNum(v) == v.t = "num"
IsTuple(v, k) == v.t = "tuple" /\ Len(v.v) = k

-----------------------------------------------------------------------------
(* Exact arithmetic on numbers (n/d)*sqrt(r) *)

Abs(i) == IF i < 0 THEN -i ELSE i

RECURSIVE GCD(_, _)
GCD(a, b) == IF b = 0 THEN a ELSE GCD(b, a % b)

\* The canonical form of (n/d)*sqrt(r), d # 0, r square-free.
Norm(n, d, r) ==
    IF n = 0 THEN [t |-> "num", n |-> 0, d |-> 1, r |-> 1]
    ELSE LET g == GCD(Abs(n), Abs(d))
             s == IF d < 0 THEN -1 ELSE 1
         IN  [t |-> "num", n |-> s * (n \div g), d |-> Abs(d) \div g, r |-> r]

Q(n, d) == Norm(n, d, 1)
N(n) == Norm(n, 1, 1)

Mul(x, y) ==
    LET g == GCD(x.r, y.r)
    IN  Norm(x.n * y.n * g, x.d * y.d, (x.r \div g) * (y.r \div g))

\* 1 / ((n/d) sqrt r) = (d / (n r)) sqrt r
Inv(y) == Norm(y.d, y.n * y.r, y.r)

\* Python's x / y: ZeroDivisionError on a zero divisor (int or float).
Div(x, y) == IF y.n = 0 THEN Exc("ZeroDivisionError") ELSE Mul(x, Inv(y))

\* A sum is formed only of numbers with the same radicand (or a zero).
Add(x, y) ==
    CASE x.n = 0 -> y
      [] y.n = 0 -> x
      [] x.n # 0 /\ y.n # 0 /\ x.r = y.r ->
            Norm(x.n * y.d + y.n * x.d, x.d * y.d, x.r)

Neg(x) == Norm(-x.n, x.d, x.r)
Sub(x, y) == Add(x, Neg(y))

\* x < y, by cross-multiplication (equal radicands) or by signed squares.
Lt(x, y) ==
    IF x.r = y.r
    THEN x.n * y.d < y.n * x.d
    ELSE LET sx == (IF x.n < 0 THEN -1 ELSE 1) * x.n * x.n * x.r
             sy == (IF y.n < 0 THEN -1 ELSE 1) * y.n * y.n * y.r
         IN  sx * y.d * y.d < sy * x.d * x.d

Le(x, y) == ~Lt(y, x)

\* Python's min(a, b) and max(a, b): the first argument unless the second
\* is strictly smaller (larger).
PyMin(a, b) == IF Lt(b, a) THEN b ELSE a
PyMax(a, b) == IF Lt(a, b) THEN b ELSE a

\* x ** k for a natural exponent k.
RECURSIVE Pow(_, _)
Pow(x, k) == IF k = 0 THEN N(1) ELSE Mul(x, Pow(x, k - 1))

\* The largest k with k*k dividing a.
SquarePart(a) ==
    LET sq == {k \in 1..a : a % (k * k) = 0}
    IN  CHOOSE k \in sq : \A j \in sq : j <= k

\* math.sqrt of a rational n/d in lowest terms: sqrt(n d)/d with the
\* square parts of n and of d taken out of the root; ValueError below zero.
Sqrt(x) ==
    IF x.n < 0 THEN Exc("ValueError")
    ELSE IF x.n = 0 THEN N(0)
    ELSE LET sn == SquarePart(x.n)
             sd == SquarePart(x.d)
         IN  Norm(sn * sd, x.d,
                  (x.n \div (sn * sn)) * (x.d \div (sd * sd)))

\* Python truthiness of a table cell: None and zero are falsy.
Falsy(v) == v = None \/ (IsNum(v) /\ v.n = 0)
PyOr(v, dflt) == IF Falsy(v) THEN dflt ELSE v

-----------------------------------------------------------------------------
(* Strings: sequences of characters, with str.strip and str.lower *)

lower(s) ==
    [i \in 1..Len(s) |->
        CASE s[i] = "A" -> "a"
          [] s[i] = "B" -> "b"
          [] OTHER -> s[i]]

RECURSIVE lstrip(_)
lstrip(s) == IF s # <<>> /\ Head(s) = " " THEN lstrip(Tail(s)) ELSE s

RECURSIVE rstrip(_)
rstrip(s) ==
    IF s # <<>> /\ s[Len(s)] = " " THEN rstrip(SubSeq(s, 1, Len(s) - 1)) ELSE s

strip(s) == rstrip(lstrip(s))

\* row[key]: KeyError when the row has no such field.
Get(row, key) == IF key \in DOMAIN row THEN row[key] ELSE Exc("KeyError")

-----------------------------------------------------------------------------
(* fpcalc.py: table lookups *)

norm(s) == lower(strip(s))

RECURSIVE sfrs_scan(_, _, _)
sfrs_scan(sfrs_data, i, selected_sfrs) ==
    IF i > Len(sfrs_data) THEN Tuple(<<N(1), N(1)>>)
    ELSE LET row == sfrs_data[i]
         IN  IF norm(row["SFRS"].s) = norm(selected_sfrs.s)
             THEN Tuple(<<row["R"], row["Omega"]>>)
             ELSE sfrs_scan(sfrs_data, i + 1, selected_sfrs)

get_sfrs_factors(sfrs_data, selected_sfrs) ==
    IF selected_sfrs = None THEN Tuple(<<None, None>>)
    ELSE sfrs_scan(sfrs_data, 1, selected_sfrs)

RECURSIVE component_scan(_, _, _, _, _)
component_scan(component_data, i, key, component_name, location) ==
    IF i > Len(component_data) THEN Tuple(<<N(1), N(1)>>)
    ELSE LET row == component_data[i]
             cell == Get(row, key)
         IN  IF IsExc(cell) THEN cell
             ELSE IF norm(cell.s) = norm(component_name.s)
             THEN LET car == IF location = "Supported Above Grade"
                             THEN Get(row, "CAR_above")
                             ELSE Get(row, "CAR_below")
                      rpo == Get(row, "Rpo")
                  IN  IF IsExc(car) THEN car
                      ELSE IF IsExc(rpo) THEN rpo
                      ELSE Tuple(<<PyOr(car, N(1)), PyOr(rpo, Q(3, 2))>>)
             ELSE component_scan(component_data, i + 1, key, component_name,
                                 location)

get_component_factors(component_data, component_name, location) ==
    IF component_name = None THEN Tuple(<<N(1), N(1)>>)
    ELSE IF component_data = <<>> THEN Exc("IndexError")
    ELSE LET key == IF "Component" \in DOMAIN component_data[1]
                    THEN "Component" ELSE "Components"
         IN  component_scan(component_data, 1, key, component_name, location)

RECURSIVE ta_scan(_, _, _, _)
ta_scan(period_data, i, structure_type, hn) ==
    IF i > Len(period_data) THEN Tuple(<<None, None, None>>)
    ELSE LET row == period_data[i]
         IN  IF norm(row["Structure Type "].s) = norm(structure_type.s)
             THEN LET Ct == row["Ct"]
                      x == row["x"]
                      Ta == Mul(Ct, Pow(hn, x.n))
                  IN  Tuple(<<Ta, Ct, x>>)
             ELSE ta_scan(period_data, i + 1, structure_type, hn)

calculate_ta(period_data, structure_type, hn) ==
    IF structure_type = None THEN Tuple(<<None, None, None>>)
    ELSE ta_scan(period_data, 1, structure_type, hn)

-----------------------------------------------------------------------------
(* fpcalc.py: component parameters *)

\* calculate_hf without its clamp of z to h.
calculate_hf_unclamped(z, h, Ta) ==
    LET zh == Div(z, h)
    IN  IF Ta = None
        THEN IF IsExc(zh) THEN zh
             ELSE Tuple(<<Add(N(1), Mul(Q(5, 2), zh)), None, None>>)
        ELSE IF Le(Ta, N(0)) \/ Le(h, N(0))
        THEN Q(7, 2)
        ELSE LET a1 == PyMin(Div(N(1), Ta), Q(5, 2))
                 a2 == PyMax(Sub(N(1), Pow(Div(Q(2, 5), Ta), 2)), N(0))
             IN  Tuple(<<Add(Add(N(1), Mul(a1, zh)), Mul(a2, Pow(zh, 10))),
                         a1, a2>>)

\* calculate_hf whose absent-Ta branch amplifies by 2.5 * (z / h) alone.
calculate_hf_unit_dropped(z0, h, Ta) ==
    LET z == IF Lt(h, z0) THEN h ELSE z0
        zh == Div(z, h)
    IN  IF Ta = None
        THEN IF IsExc(zh) THEN zh
             ELSE Tuple(<<Mul(Q(5, 2), zh), None, None>>)
        ELSE IF Le(Ta, N(0)) \/ Le(h, N(0))
        THEN Q(7, 2)
        ELSE LET a1 == PyMin(Div(N(1), Ta), Q(5, 2))
                 a2 == PyMax(Sub(N(1), Pow(Div(Q(2, 5), Ta), 2)), N(0))
             IN  Tuple(<<Add(Add(N(1), Mul(a1, zh)), Mul(a2, Pow(zh, 10))),
                         a1, a2>>)

calculate_hf(z0, h, Ta) ==
    LET z == IF Lt(h, z0) THEN h ELSE z0
        zh == Div(z, h)
    IN  IF Ta = None
        THEN IF IsExc(zh) THEN zh
             ELSE Tuple(<<Add(N(1), Mul(Q(5, 2), zh)), None, None>>)
        ELSE IF Le(Ta, N(0)) \/ Le(h, N(0))
        THEN Q(7, 2)
        ELSE LET a1 == PyMin(Div(N(1), Ta), Q(5, 2))
                 a2 == PyMax(Sub(N(1), Pow(Div(Q(2, 5), Ta), 2)), N(0))
             IN  Tuple(<<Add(Add(N(1), Mul(a1, zh)), Mul(a2, Pow(zh, 10))),
                         a1, a2>>)

\* calculate_rmu without its except clause.
calculate_rmu_uncaught(R, Ie, Omega_0) ==
    LET q == Div(Mul(Q(11, 10), R), Mul(Ie, Omega_0))
    IN  IF IsExc(q) THEN q
        ELSE LET rmu == Sqrt(q)
             IN  IF IsExc(rmu) THEN rmu ELSE PyMax(rmu, Q(13, 10))

calculate_rmu(R, Ie, Omega_0) ==
    LET q == Div(Mul(Q(11, 10), R), Mul(Ie, Omega_0))
    IN  IF IsExc(q) THEN Q(13, 10)
        ELSE LET rmu == Sqrt(q)
             IN  IF IsExc(rmu) THEN rmu ELSE PyMax(rmu, Q(13, 10))

\* calculate_fp_coeff without the lower clamp.
calculate_fp_coeff_no_floor(SDS, Ip, Wp, Hf, Rmu, CAR, Rpo) ==
    LET hr == Div(Hf, Rmu)
        cr == Div(CAR, Rpo)
    IN  IF IsExc(hr) THEN hr
        ELSE IF IsExc(cr) THEN cr
        ELSE LET Fp_calc == Mul(Mul(Mul(Mul(Q(2, 5), SDS), Ip), hr), cr)
                 Fp_min == Mul(Mul(Q(3, 10), SDS), Ip)
                 Fp_max == Mul(Mul(Q(8, 5), SDS), Ip)
                 Fp == PyMin(Fp_calc, Fp_max)
             IN  Tuple(<<Fp, Fp_calc, Fp_min, Fp_max>>)

\* calculate_fp_coeff with the upper bound at 1.5 * SDS * Ip.
calculate_fp_coeff_low_cap(SDS, Ip, Wp, Hf, Rmu, CAR, Rpo) ==
    LET hr == Div(Hf, Rmu)
        cr == Div(CAR, Rpo)
    IN  IF IsExc(hr) THEN hr
        ELSE IF IsExc(cr) THEN cr
        ELSE LET Fp_calc == Mul(Mul(Mul(Mul(Q(2, 5), SDS), Ip), hr), cr)
                 Fp_min == Mul(Mul(Q(3, 10), SDS), Ip)
                 Fp_max == Mul(Mul(Q(3, 2), SDS), Ip)
                 Fp == PyMax(PyMin(Fp_calc, Fp_max), Fp_min)
             IN  Tuple(<<Fp, Fp_calc, Fp_min, Fp_max>>)

calculate_fp_coeff(SDS, Ip, Wp, Hf, Rmu, CAR, Rpo) ==
    LET hr == Div(Hf, Rmu)
        cr == Div(CAR, Rpo)
    IN  IF IsExc(hr) THEN hr
        ELSE IF IsExc(cr) THEN cr
        ELSE LET Fp_calc == Mul(Mul(Mul(Mul(Q(2, 5), SDS), Ip), hr), cr)
                 Fp_min == Mul(Mul(Q(3, 10), SDS), Ip)
                 Fp_max == Mul(Mul(Q(8, 5), SDS), Ip)
                 Fp == PyMax(PyMin(Fp_calc, Fp_max), Fp_min)
             IN  Tuple(<<Fp, Fp_calc, Fp_min, Fp_max>>)

-----------------------------------------------------------------------------
(* app.py: the part of the script that calls the engine *)

\* structure_type = "All other structural systems" (shortened to its
\* first word; only trimmed, case-folded equality is ever asked of it).
structure_type == Str(<<"A", "l", "l">>)

\* selected_sfrs -> R, Omega_0
sfrs_selection(sfrs_data, selected_sfrs) ==
    IF selected_sfrs # None /\ selected_sfrs.s # <<>>
    THEN get_sfrs_factors(sfrs_data, selected_sfrs)
    ELSE Tuple(<<N(0), N(0)>>)

\* The results section, entered with SDS present.  It returns the local
\* variables it leaves behind, or the exception that ended the run.
results_section(SDS, Ip, Ie, R, Omega_0, z, h, component_name, arch_components, period_data) ==
    LET location_type == IF Lt(N(0), z) THEN "Supported Above Grade"
                         ELSE "Supported At or Below Grade"
        cf == get_component_factors(arch_components, component_name,
                                    location_type)
        ta == calculate_ta(period_data, structure_type, h)
        hf == calculate_hf(z, h, ta.v[1])
        Rmu == calculate_rmu(R, Ie, Omega_0)
        fp == calculate_fp_coeff(SDS, Ip, N(1), hf.v[1], Rmu, cf.v[1], cf.v[2])
    IN  IF IsExc(cf) THEN cf
        ELSE IF IsExc(hf) THEN hf
        ELSE IF ~IsTuple(hf, 3) THEN Exc("TypeError")
        ELSE IF IsExc(Rmu) THEN Rmu
        ELSE IF IsExc(fp) THEN fp
        ELSE [t |-> "results", CAR |-> cf.v[1], Rpo |-> cf.v[2],
              Ta |-> ta.v[1], Hf |-> hf.v[1], a1 |-> hf.v[2], a2 |-> hf.v[3],
              Rmu |-> Rmu, Fp_coeff |-> fp.v[1], Fp_calc_coeff |-> fp.v[2],
              Fp_min_coeff |-> fp.v[3], Fp_max_coeff |-> fp.v[4]]

-----------------------------------------------------------------------------
(* The inputs the engine is exercised on *)

MaxRows == 2

\* Names as stored in tables, and as asked for: differing in case and in
\* surrounding blanks, the last key matching no stored name.
RowNames == {<<"a">>, <<"B", " ">>, <<"A", "l", "l">>}
Keys == {None, Str(<<" ", "A">>), Str(<<"b">>), Str(<<"a", "l", "L", " ">>),
         Str(<<"c">>)}

SeqsUpTo(S, k) == UNION {[1..m -> S] : m \in 0..k}

SfrsRows ==
    {[SFRS |-> Str(nm), R |-> f[1], Omega |-> f[2]] :
        nm \in RowNames, f \in {<<N(8), N(3)>>, <<Q(13, 4), Q(5, 2)>>}}

ComponentFactors ==
    {<<Q(5, 2), N(1), Q(3, 2)>>, <<None, N(0), None>>, <<N(1), Q(5, 2), N(0)>>}

ComponentRows ==
    {(lbl :> Str(nm)) @@ [CAR_above |-> f[1], CAR_below |-> f[2], Rpo |-> f[3]] :
        lbl \in {"Component", "Components"}, nm \in RowNames,
        f \in ComponentFactors}

PeriodRows ==
    {("Structure Type " :> Str(nm)) @@ [Ct |-> f[1], x |-> f[2]] :
        nm \in RowNames, f \in {<<Q(1, 50), N(1)>>, <<N(0), N(1)>>,
                                <<Q(1, 10), N(0)>>}}

Locations == {"Supported Above Grade", "Supported At or Below Grade"}

Heights == {N(-1), N(0), N(1), N(2), N(3)}
Periods == {None, N(-1), N(0), Q(1, 4), Q(2, 5), Q(1, 2), N(1), N(2)}

RValues == {N(-1), N(0), N(1), N(8), Q(13, 4)}
IeValues == {N(0), N(1), Q(3, 2)}
OmegaValues == {N(0), N(1), Q(5, 2), N(3)}

SDSValues == {Q(-1, 2), N(0), Q(1, 2), N(1)}
IpValues == {N(0), N(1), Q(3, 2)}
WpValues == {N(1), N(2)}
HfValues == {N(-1), N(0), N(1), Q(7, 2)}
RmuValues == {N(-1), N(0), Q(13, 10), Norm(2, 15, 165)}
CARValues == {N(0), N(1), Q(5, 2), N(5)}
RpoValues == {N(0), N(1), Q(3, 2)}

-----------------------------------------------------------------------------
(* One action per engine call; a behaviour makes one call *)

NoCall == [fn |-> "none"]

GetSfrsFactors ==
    /\ call = NoCall
    /\ \E sfrs_data \in SeqsUpTo(SfrsRows, MaxRows), selected_sfrs \in Keys :
        /\ call' = [fn |-> "get_sfrs_factors", sfrs_data |-> sfrs_data,
                    selected_sfrs |-> selected_sfrs]
        /\ ret' = get_sfrs_factors(sfrs_data, selected_sfrs)
    /\ UNCHANGED authVars

GetComponentFactors ==
    /\ call = NoCall
    /\ \E component_data \in SeqsUpTo(ComponentRows, MaxRows),
          component_name \in Keys, location \in Locations :
        /\ call' = [fn |-> "get_component_factors",
                    component_data |-> component_data,
                    component_name |-> component_name, location |-> location]
        /\ ret' = get_component_factors(component_data, component_name,
                                        location)
    /\ UNCHANGED authVars

CalculateTa ==
    /\ call = NoCall
    /\ \E period_data \in SeqsUpTo(PeriodRows, MaxRows), st \in Keys,
          hn \in {N(0), N(12), N(60)} :
        /\ call' = [fn |-> "calculate_ta", period_data |-> period_data,
                    structure_type |-> st, hn |-> hn]
        /\ ret' = calculate_ta(period_data, st, hn)
    /\ UNCHANGED authVars

CalculateHf ==
    /\ call = NoCall
    /\ \E z \in Heights, h \in Heights, Ta \in Periods :
        /\ call' = [fn |-> "calculate_hf", z |-> z, h |-> h, Ta |-> Ta]
        /\ ret' = calculate_hf(z, h, Ta)
    /\ UNCHANGED authVars

CalculateRmu ==
    /\ call = NoCall
    /\ \E R \in RValues, Ie \in IeValues, Omega_0 \in OmegaValues :
        /\ call' = [fn |-> "calculate_rmu", R |-> R, Ie |-> Ie,
                    Omega_0 |-> Omega_0]
        /\ ret' = calculate_rmu(R, Ie, Omega_0)
    /\ UNCHANGED authVars

CalculateFpCoeff ==
    /\ call = NoCall
    /\ \E SDS \in SDSValues, Ip \in IpValues, Wp \in WpValues,
          Hf \in HfValues, Rmu \in RmuValues, CAR \in CARValues,
          Rpo \in RpoValues :
        /\ call' = [fn |-> "calculate_fp_coeff", SDS |-> SDS, Ip |-> Ip,
                    Wp |-> Wp, Hf |-> Hf, Rmu |-> Rmu, CAR |-> CAR,
                    Rpo |-> Rpo]
        /\ ret' = calculate_fp_coeff(SDS, Ip, Wp, Hf, Rmu, CAR, Rpo)
    /\ UNCHANGED authVars

\* The script reaching its results section: selected_sfrs gives R and
\* Omega_0, the occupancy gives Ie = Ip, the floor counts give z <= h.
SfrsChoices ==
    {sfrs_selection(sfrs_data, selected_sfrs) :
        sfrs_data \in SeqsUpTo(SfrsRows, 1),
        selected_sfrs \in {None, Str(<<"b">>), Str(<<"c">>)}}

ArchRows ==
    {row \in ComponentRows :
        /\ row["Rpo"] # N(0)
        /\ \E lbl \in {"Component", "Components"} :
              lbl \in DOMAIN row /\ row[lbl].s # <<"B", " ">>}

ResultsSection ==
    /\ call = NoCall
    /\ \E SDS \in {Q(1, 2), N(1)}, I \in {N(1), Q(3, 2)}, RO \in SfrsChoices,
          zh \in {<<N(60), N(60)>>, <<N(12), N(12)>>, <<N(0), N(60)>>},
          component_name \in {Str(<<" ", "A">>), Str(<<"c">>)},
          arch_components \in SeqsUpTo(ArchRows, 2),
          period_data \in SeqsUpTo({row \in PeriodRows :
                                     row["Structure Type "].s # <<"B", " ">>}, 1) :
        /\ call' = [fn |-> "results_section", SDS |-> SDS, Ip |-> I,
                    Ie |-> I, R |-> RO.v[1], Omega_0 |-> RO.v[2],
                    z |-> zh[1], h |-> zh[2],
                    component_name |-> component_name,
                    arch_components |-> arch_components,
                    period_data |-> period_data]
        /\ ret' = results_section(SDS, I, I, RO.v[1], RO.v[2], zh[1],
                                  zh[2], component_name, arch_components,
                                  period_data)
    /\ UNCHANGED authVars

CalcInit ==
    /\ call = NoCall
    /\ ret = None

AuthIdle ==
    /\ session_state = <<>>
    /\ query_params = None
    /\ page = "none"
    /\ rerun = FALSE
    /\ exchange = None
    /\ secrets = [configured |-> TRUE, allowed_users |-> <<>>]

Init == CalcInit /\ AuthIdle

Next ==
    \/ GetSfrsFactors
    \/ GetComponentFactors
    \/ CalculateTa
    \/ CalculateHf
    \/ CalculateRmu
    \/ CalculateFpCoeff
    \/ ResultsSection

Spec == Init /\ [][Next]_vars

-----------------------------------------------------------------------------
(* auth.py: the authentication gate *)

PyBool(b) == [t |-> "bool", b |-> b]

Truthy(v) ==
    CASE v.t = "bool" -> v.b
      [] v.t = "None" -> FALSE
      [] v.t = "str" -> v.s # <<>>
      [] OTHER -> TRUE

\* A session_state with the keys ks deleted.
Without(ss, ks) == [k \in DOMAIN ss \ ks |-> ss[k]]

\* MicrosoftAuth.is_user_authorized: no allowed_users admits everybody;
\* otherwise mail or userPrincipalName, lower-cased, must be listed.  A
\* user whose mail is null makes mail.lower() raise AttributeError.
is_user_authorized(sec, user_info) ==
    IF sec.allowed_users = <<>> THEN PyBool(TRUE)
    ELSE IF user_info.mail = None \/ user_info.userPrincipalName = None
    THEN Exc("AttributeError")
    ELSE PyBool(\E i \in DOMAIN sec.allowed_users :
                   \/ lower(user_info.mail.s) = lower(sec.allowed_users[i])
                   \/ lower(user_info.userPrincipalName.s)
                         = lower(sec.allowed_users[i]))

\* The four keys login_ui initialises when they are missing.
SessionDefaults ==
    [authenticated |-> PyBool(FALSE), user_info |-> None,
     access_token |-> None, guest_mode |-> PyBool(FALSE)]

\* login_ui without the branch that turns an unauthorized user away: whoever
\* Graph names is signed in.
login_ui_unchecked(sec, ss0, qp, pressed, env, ex) ==
    LET ss == [k \in DOMAIN SessionDefaults |->
                  IF k \in DOMAIN ss0 THEN ss0[k] ELSE SessionDefaults[k]]
        End(out) == [ss |-> ss, qp |-> qp, out |-> out, exchange |-> ex]
        Tried(out, authorized) ==
            [ss |-> ss, qp |-> qp, out |-> out,
             exchange |-> [t |-> "exchange",
                           token |-> ("access_token" \in DOMAIN env.token),
                           user |-> Truthy(env.user),
                           authorized |-> authorized]]
    IN  IF Truthy(ss.authenticated) \/ Truthy(ss.guest_mode)
        THEN End("return")
        ELSE IF ~sec.configured THEN End("config_error")
        ELSE IF qp # None /\ "access_token" \notin DOMAIN env.token
        THEN Tried("auth_failed", FALSE)
        ELSE IF qp # None /\ ~Truthy(env.user)
        THEN Tried("no_user_info", FALSE)
        ELSE IF qp # None /\ IsExc(is_user_authorized(sec, env.user))
        THEN Tried("exception", FALSE)
        ELSE IF qp # None
        THEN [ss |-> [ss EXCEPT !.authenticated = PyBool(TRUE),
                                !.user_info = env.user,
                                !.access_token = env.token.access_token],
              qp |-> None, out |-> "rerun_authenticated",
              exchange |-> [t |-> "exchange", token |-> TRUE, user |-> TRUE,
                            authorized |->
                                is_user_authorized(sec, env.user).b]]
        ELSE IF pressed = "guest_button"
        THEN [ss |-> [ss EXCEPT !.guest_mode = PyBool(TRUE)], qp |-> qp,
              out |-> "rerun_guest", exchange |-> ex]
        ELSE End("login")

\* login_ui: returns to the script only for an authenticated or guest
\* session; every other path ends the run with st.stop() or st.rerun().
login_ui(sec, ss0, qp, pressed, env, ex) ==
    LET ss == [k \in DOMAIN SessionDefaults |->
                  IF k \in DOMAIN ss0 THEN ss0[k] ELSE SessionDefaults[k]]
        End(out) == [ss |-> ss, qp |-> qp, out |-> out, exchange |-> ex]
        Tried(out, authorized) ==
            [ss |-> ss, qp |-> qp, out |-> out,
             exchange |-> [t |-> "exchange",
                           token |-> ("access_token" \in DOMAIN env.token),
                           user |-> Truthy(env.user),
                           authorized |-> authorized]]
    IN  IF Truthy(ss.authenticated) \/ Truthy(ss.guest_mode)
        THEN End("return")
        ELSE IF ~sec.configured THEN End("config_error")
        ELSE IF qp # None /\ "access_token" \notin DOMAIN env.token
        THEN Tried("auth_failed", FALSE)
        ELSE IF qp # None /\ ~Truthy(env.user)
        THEN Tried("no_user_info", FALSE)
        ELSE IF qp # None /\ IsExc(is_user_authorized(sec, env.user))
        THEN Tried("exception", FALSE)
        ELSE IF qp # None /\ ~is_user_authorized(sec, env.user).b
        THEN Tried("not_authorized", FALSE)
        ELSE IF qp # None
        THEN [ss |-> [ss EXCEPT !.authenticated = PyBool(TRUE),
                                !.user_info = env.user,
                                !.access_token = env.token.access_token],
              qp |-> None, out |-> "rerun_authenticated",
              exchange |-> [t |-> "exchange", token |-> TRUE, user |-> TRUE,
                            authorized |-> TRUE]]
        ELSE IF pressed = "guest_button"
        THEN [ss |-> [ss EXCEPT !.guest_mode = PyBool(TRUE)], qp |-> qp,
              out |-> "rerun_guest", exchange |-> ex]
        ELSE End("login")

\* logout_ui: the sidebar's Logout or Exit Guest Mode button, when pressed,
\* deletes the session's keys and reruns the script.
logout_ui(ss, pressed) ==
    IF Truthy(ss.authenticated) /\ Truthy(ss.user_info)
    THEN IF pressed = "logout_btn"
         THEN [ss |-> Without(ss, {"authenticated", "user_info",
                                   "access_token"}),
               out |-> "rerun_logout"]
         ELSE [ss |-> ss, out |-> "return"]
    ELSE IF Truthy(ss.guest_mode)
    THEN IF pressed = "exit_guest_btn"
         THEN [ss |-> Without(ss, {"guest_mode"}), out |-> "rerun_exit_guest"]
         ELSE [ss |-> ss, out |-> "return"]
    ELSE [ss |-> ss, out |-> "return"]

\* One run of app.py: login_ui(), logout_ui(), then the calculator body.
script_run(sec, ss0, qp, pressed, env, ex) ==
    LET li == login_ui(sec, ss0, qp, pressed, env, ex)
        lo == logout_ui(li.ss, pressed)
    IN  IF li.out # "return"
        THEN [ss |-> li.ss, qp |-> li.qp, page |-> li.out,
              exchange |-> li.exchange]
        ELSE IF lo.out # "return"
        THEN [ss |-> lo.ss, qp |-> li.qp, page |-> lo.out,
              exchange |-> li.exchange]
        ELSE [ss |-> lo.ss, qp |-> li.qp, page |-> "calculator",
              exchange |-> li.exchange]

\* Pages that end in st.rerun(): the script runs again at once.
RerunPages ==
    {"rerun_authenticated", "rerun_guest", "rerun_logout", "rerun_exit_guest"}

\* What Microsoft may answer: a token or an error, and for a token the
\* signed-in user (or no answer from Graph).
TokenResults ==
    {[access_token |-> Str(<<"t">>)], [access_token |-> Str(<<"u">>)],
     [error_description |-> Str(<<"e">>)]}
GraphUsers ==
    {None,
     [t |-> "dict", mail |-> Str(<<"A">>), userPrincipalName |-> Str(<<"a">>)],
     [t |-> "dict", mail |-> Str(<<"b">>), userPrincipalName |-> Str(<<"b">>)],
     [t |-> "dict", mail |-> None, userPrincipalName |-> Str(<<"a">>)]}
Environments == [token : TokenResults, user : GraphUsers]

\* st.secrets["microsoft"]: complete or not, with its allowed_users.
Secrets ==
    [configured : BOOLEAN,
     allowed_users : {<<>>, << <<"a">> >>, << <<"B">> >>,
                      << <<"A">>, <<"b">> >>}]

Codes == {Str(<<"c">>), Str(<<"d">>)}

Run(ss0, qp, pressed, ex) ==
    \E env \in Environments :
        LET r == script_run(secrets, ss0, qp, pressed, env, ex)
        IN  /\ session_state' = r.ss
            /\ query_params' = r.qp
            /\ page' = r.page
            /\ rerun' = (r.page \in RerunPages)
            /\ exchange' = r.exchange
            /\ UNCHANGED <<secrets, call, ret>>

\* The browser loads the app (the sign-in link and Microsoft's redirect
\* back with ?code= are such loads): a new session, and a first run.
Load ==
    /\ ~rerun
    /\ \E qp \in Codes \cup {None} : Run(<<>>, qp, "none", None)

\* st.rerun() was called: the script runs again.
Rerun ==
    /\ rerun
    /\ Run(session_state, query_params, "none", exchange)

\* Any other interaction that reruns the script.
Interact ==
    /\ ~rerun /\ page # "none"
    /\ Run(session_state, query_params, "none", exchange)

ClickGuest ==
    /\ ~rerun /\ page = "login"
    /\ Run(session_state, query_params, "guest_button", exchange)

ClickLogout ==
    /\ ~rerun /\ page = "calculator"
    /\ Truthy(session_state.authenticated)
    /\ Truthy(session_state.user_info)
    /\ Run(session_state, query_params, "logout_btn", exchange)

ClickExitGuest ==
    /\ ~rerun /\ page = "calculator"
    /\ ~(Truthy(session_state.authenticated)
         /\ Truthy(session_state.user_info))
    /\ Truthy(session_state.guest_mode)
    /\ Run(session_state, query_params, "exit_guest_btn", exchange)

AuthInit ==
    /\ CalcInit
    /\ secrets \in Secrets
    /\ session_state = <<>>
    /\ query_params = None
    /\ page = "none"
    /\ rerun = FALSE
    /\ exchange = None

AuthNext ==
    \/ Load
    \/ Rerun
    \/ Interact
    \/ ClickGuest
    \/ ClickLogout
    \/ ClickExitGuest

AuthSpec == AuthInit /\ [][AuthNext]_vars

-----------------------------------------------------------------------------
(* Properties of the engine *)

Fn(f) == call.fn = f

\* The name a component row carries, under whichever label it uses.
RowName(row) ==
    IF "Component" \in DOMAIN row THEN row["Component"] ELSE row["Components"]

Matches(cell, key) == norm(cell.s) = norm(key.s)

\* C1: for SDS >= 0, Ip >= 0 and non-zero Rmu, Rpo, calculate_fp_coeff
\* returns (Fp, Fp_calc, Fp_min, Fp_max) with Fp_min = 0.3 SDS Ip,
\* Fp_max = 1.6 SDS Ip, Fp_calc = 0.4 SDS Ip (Hf/Rmu) (CAR/Rpo) and
\* Fp_min <= Fp <= Fp_max; Fp is Fp_calc inside the bounds, Fp_max above
\* them, Fp_min below them; and Wp changes none of the four values.
C1_FpClamped ==
    (/\ Fn("calculate_fp_coeff")
     /\ Le(N(0), call.SDS) /\ Le(N(0), call.Ip)
     /\ call.Rmu.n # 0 /\ call.Rpo.n # 0)
    => /\ IsTuple(ret, 4)
       /\ LET Fp == ret.v[1]
              Fp_calc == ret.v[2]
              Fp_min == ret.v[3]
              Fp_max == ret.v[4]
              SI == Mul(call.SDS, call.Ip)
          IN  /\ Fp_min = Mul(Q(3, 10), SI)
              /\ Fp_max = Mul(Q(8, 5), SI)
              /\ Mul(Mul(Fp_calc, call.Rmu), call.Rpo)
                    = Mul(Mul(Mul(Q(2, 5), SI), call.Hf), call.CAR)
              /\ Le(Fp_min, Fp) /\ Le(Fp, Fp_max)
              /\ (Le(Fp_min, Fp_calc) /\ Le(Fp_calc, Fp_max)) => Fp = Fp_calc
              /\ Lt(Fp_max, Fp_calc) => Fp = Fp_max
              /\ Lt(Fp_calc, Fp_min) => Fp = Fp_min
       /\ \A Wp \in WpValues :
             ret = calculate_fp_coeff(call.SDS, call.Ip, Wp, call.Hf,
                                      call.Rmu, call.CAR, call.Rpo)

\* C1 witness: a call with positive SDS and Ip whose Fp_calc lies above
\* Fp_max and was clamped down to it.
C1_Witness ==
    /\ Fn("calculate_fp_coeff")
    /\ Lt(N(0), call.SDS) /\ Lt(N(0), call.Ip)
    /\ IsTuple(ret, 4)
    /\ Lt(ret.v[4], ret.v[2])
    /\ ret.v[1] = ret.v[4]

\* C2: calculate_hf raises no exception, whatever z, h and Ta.
C2_HfNeverRaises == Fn("calculate_hf") => ~IsExc(ret)

\* C3: whenever calculate_hf returns, it returns a triple; with Ta present
\* and (Ta <= 0 or h <= 0) the triple is (3.5, None, None).
C3_HfReturnsTriple ==
    (Fn("calculate_hf") /\ ~IsExc(ret))
    => /\ IsTuple(ret, 3)
       /\ (call.Ta # None /\ (Le(call.Ta, N(0)) \/ Le(call.h, N(0))))
             => ret = Tuple(<<Q(7, 2), None, None>>)

\* C4: a requested name matching no row of the table, the empty table
\* included, makes each lookup return its fallback: (1.0, 1.0) for the
\* SFRS and the component lookup, (None, None, None) for calculate_ta.
C4_LookupMissFallsBack ==
    /\ (/\ Fn("get_sfrs_factors") /\ call.selected_sfrs # None
        /\ \A i \in DOMAIN call.sfrs_data :
              ~Matches(call.sfrs_data[i]["SFRS"], call.selected_sfrs))
       => ret = Tuple(<<N(1), N(1)>>)
    /\ (/\ Fn("get_component_factors") /\ call.component_name # None
        /\ \A i \in DOMAIN call.component_data :
              ~Matches(RowName(call.component_data[i]), call.component_name))
       => ret = Tuple(<<N(1), N(1)>>)
    /\ (/\ Fn("calculate_ta") /\ call.structure_type # None
        /\ \A i \in DOMAIN call.period_data :
              ~Matches(call.period_data[i]["Structure Type "],
                       call.structure_type))
       => ret = Tuple(<<None, None, None>>)

\* C5: in a non-empty table whose rows carry the name under either label,
\* a key equal (trimmed, case-folded) to some row's name gets the first
\* matching row's factors: CAR_above for 'Supported Above Grade', else
\* CAR_below, 1.0 if that is None or falsy; Rpo, 1.5 if None or falsy.
C5_EitherLabelFound ==
    (/\ Fn("get_component_factors") /\ call.component_name # None
     /\ \E i \in DOMAIN call.component_data :
           Matches(RowName(call.component_data[i]), call.component_name))
    => LET hits == {i \in DOMAIN call.component_data :
                       Matches(RowName(call.component_data[i]),
                               call.component_name)}
           first == CHOOSE i \in hits : \A j \in hits : i <= j
           row == call.component_data[first]
           car == IF call.location = "Supported Above Grade"
                  THEN row["CAR_above"] ELSE row["CAR_below"]
       IN  ret = Tuple(<<IF Falsy(car) THEN N(1) ELSE car,
                         IF Falsy(row["Rpo"]) THEN Q(3, 2) ELSE row["Rpo"]>>)

\* The scenario of C6: SDS = 1.0, Ip = 1.5, h = z = 60, no SFRS selected
\* (R = Omega_0 = 0), no period row for the structure type (Ta absent) and
\* no component row for the requested name.
C6_Scenario ==
    /\ Fn("results_section")
    /\ call.SDS = N(1) /\ call.Ip = Q(3, 2)
    /\ call.h = N(60) /\ call.z = N(60)
    /\ call.R = N(0) /\ call.Omega_0 = N(0)
    /\ \A i \in DOMAIN call.period_data :
          ~Matches(call.period_data[i]["Structure Type "], structure_type)
    /\ \A i \in DOMAIN call.arch_components :
          ~Matches(RowName(call.arch_components[i]), call.component_name)

\* The component lookup scans such a table to its end: the table is not
\* empty and every row carries the name under the first row's label.
C6_TableScanned ==
    /\ call.arch_components # <<>>
    /\ \A i \in DOMAIN call.arch_components :
          DOMAIN call.arch_components[i] = DOMAIN call.arch_components[1]

\* C6 as claimed: the scenario yields Hf = 3.5, Rmu = 1.3, CAR = 1.0,
\* Rpo = 1.5, Fp_calc = 0.4*1.0*1.5*(3.5/1.3)*(1.0/1.5) = 14/13,
\* Fp_min = 0.45, Fp_max = 2.4 and Fp = Fp_calc.
C6_AsClaimed ==
    (C6_Scenario /\ C6_TableScanned)
    => /\ ret.t = "results"
       /\ ret.Hf = Q(7, 2) /\ ret.Rmu = Q(13, 10)
       /\ ret.CAR = N(1) /\ ret.Rpo = Q(3, 2)
       /\ ret.Fp_calc_coeff = Q(14, 13)
       /\ ret.Fp_min_coeff = Q(9, 20) /\ ret.Fp_max_coeff = Q(12, 5)
       /\ ret.Fp_coeff = ret.Fp_calc_coeff

\* C6 amended: on a non-empty table scanned to its end without a match the
\* scenario yields Hf = 3.5, Rmu = 1.3, CAR = 1.0, Rpo = 1.0,
\* Fp_calc = 0.4*1.0*1.5*(3.5/1.3)*(1.0/1.0) = 21/13, Fp_min = 0.45,
\* Fp_max = 2.4 and Fp = Fp_calc, unclamped.
C6_NoMatchScenario ==
    (C6_Scenario /\ C6_TableScanned)
    => /\ ret.t = "results"
       /\ ret.Ta = None
       /\ ret.Hf = Q(7, 2) /\ ret.Rmu = Q(13, 10)
       /\ ret.CAR = N(1) /\ ret.Rpo = N(1)
       /\ ret.Fp_calc_coeff = Q(21, 13)
       /\ ret.Fp_min_coeff = Q(9, 20) /\ ret.Fp_max_coeff = Q(12, 5)
       /\ ret.Fp_coeff = ret.Fp_calc_coeff
       /\ Lt(ret.Fp_min_coeff, ret.Fp_coeff)
       /\ Lt(ret.Fp_coeff, ret.Fp_max_coeff)

\* C6 witness: the scenario run on a two-row table with no matching row.
C6_Witness ==
    /\ C6_Scenario /\ C6_TableScanned
    /\ Len(call.arch_components) = 2
    /\ ret.t = "results"

\* The bounds calculate_fp_coeff returned for SDS >= 0 and Ip >= 0.
C7_BoundsReturned ==
    /\ Fn("calculate_fp_coeff") /\ IsTuple(ret, 4)
    /\ Le(N(0), call.SDS) /\ Le(N(0), call.Ip)

\* C7 as claimed: Fp_min = 0.75 * Fp_max / 2, i.e. Fp_max = 16/3 * Fp_min.
C7_AsClaimed ==
    C7_BoundsReturned
    => /\ ret.v[3] = Div(Mul(Q(3, 4), ret.v[4]), N(2))
       /\ ret.v[4] = Mul(Q(16, 3), ret.v[3])

\* C7 amended: Fp_min = 0.75 * Fp_max / 4, i.e. Fp_max = 16/3 * Fp_min.
C7_BoundsRatio ==
    C7_BoundsReturned
    => /\ ret.v[3] = Div(Mul(Q(3, 4), ret.v[4]), N(4))
       /\ ret.v[4] = Mul(Q(16, 3), ret.v[3])

\* C7 witness: bounds returned for positive SDS and Ip.
C7_Witness ==
    /\ C7_BoundsReturned
    /\ Lt(N(0), call.SDS) /\ Lt(N(0), call.Ip)
    /\ Lt(N(0), ret.v[3])

\* C8: for R, Ie, Omega_0 >= 0 calculate_rmu raises nothing and returns a
\* number >= 1.3: exactly 1.3 when Ie * Omega_0 = 0, and otherwise the
\* non-negative number whose square is max(1.1 R / (Ie Omega_0), 1.69).
C8_RmuFloor ==
    (/\ Fn("calculate_rmu")
     /\ Le(N(0), call.R) /\ Le(N(0), call.Ie) /\ Le(N(0), call.Omega_0))
    => /\ IsNum(ret)
       /\ Le(Q(13, 10), ret)
       /\ LET den == Mul(call.Ie, call.Omega_0)
              q == Div(Mul(Q(11, 10), call.R), den)
          IN  IF den.n = 0 THEN ret = Q(13, 10)
              ELSE Mul(ret, ret) = PyMax(q, Q(169, 100))

\* C8 witness: R = 0 and Omega_0 = 0 (0.0 / 0.0) answered by 1.3.
C8_Witness ==
    /\ Fn("calculate_rmu")
    /\ call.R = N(0) /\ call.Omega_0 = N(0) /\ Lt(N(0), call.Ie)
    /\ ret = Q(13, 10)

\* C9: for h > 0 and z > h, calculate_hf(z, h, Ta) is calculate_hf(h, h, Ta)
\* for every Ta, and with Ta > 0 its Hf is 1 + a1 + a2; for z = 0, h > 0
\* and Ta > 0 its Hf is 1.
C9_HfClamp ==
    /\ (Fn("calculate_hf") /\ Lt(N(0), call.h) /\ Lt(call.h, call.z))
       => /\ ret = calculate_hf(call.h, call.h, call.Ta)
          /\ (call.Ta # None /\ Lt(N(0), call.Ta))
                => /\ IsTuple(ret, 3)
                   /\ ret.v[1] = Add(Add(N(1), ret.v[2]), ret.v[3])
    /\ (/\ Fn("calculate_hf") /\ Lt(N(0), call.h) /\ call.z = N(0)
        /\ call.Ta # None /\ Lt(N(0), call.Ta))
       => IsTuple(ret, 3) /\ ret.v[1] = N(1)

\* C9 witness: a call with z > h > 0 and Ta > 0 that returned a triple
\* with both shape coefficients at work.
C9_Witness ==
    /\ Fn("calculate_hf")
    /\ Lt(N(0), call.h) /\ Lt(call.h, call.z)
    /\ call.Ta # None /\ Lt(N(0), call.Ta)
    /\ IsTuple(ret, 3)
    /\ Lt(N(0), ret.v[3])

-----------------------------------------------------------------------------
(* Properties of the authentication gate *)

Authenticated(ss) == "authenticated" \in DOMAIN ss /\ Truthy(ss.authenticated)
GuestMode(ss) == "guest_mode" \in DOMAIN ss /\ Truthy(ss.guest_mode)

\* The signed-in user passes the deployment's allowed_users list.
Admitted(sec, ss) ==
    \/ sec.allowed_users = <<>>
    \/ \E i \in DOMAIN sec.allowed_users :
          \/ /\ ss.user_info.mail # None
             /\ lower(ss.user_info.mail.s) = lower(sec.allowed_users[i])
          \/ lower(ss.user_info.userPrincipalName.s)
                = lower(sec.allowed_users[i])

\* C10: every run that reaches the calculator body leaves a session that
\* is authenticated or in guest mode; a session is authenticated only
\* when its last OAuth exchange returned an access token, Graph returned
\* the user and is_user_authorized admitted that user; and the run that
\* follows Logout or Exit Guest Mode shows the login form.
C10_AuthGate ==
    [][/\ page' = "calculator"
            => (Authenticated(session_state') \/ GuestMode(session_state'))
       /\ Authenticated(session_state')
            => /\ exchange'.t = "exchange"
               /\ exchange'.token /\ exchange'.user /\ exchange'.authorized
               /\ Admitted(secrets', session_state')
       /\ page \in {"rerun_logout", "rerun_exit_guest"} => page' = "login"
      ]_vars

\* C10 witness: the login form shown again to a session that had signed
\* in under a non-empty allowed_users list and then logged out.
C10_Witness ==
    /\ page = "login"
    /\ secrets.allowed_users # <<>>
    /\ exchange.t = "exchange" /\ exchange.authorized
    /\ ~Authenticated(session_state)

====
